---- MODULE Spec2Model ----
(***************************************************************************)
(* cfhdb: profile catalog fetch (with cache fallback), catalog parsing,    *)
(* device/profile matching for the USB, Bluetooth and DMI domains, and the *)
(* status-gated install of a profile.                                      *)
(*                                                                         *)
(* The specifications share the operators below:                           *)
(*   SpecMatch  set_available_profiles and the profile listing, over a     *)
(*              broad family of profiles and devices;                      *)
(*   SpecParse  the per-entry loop of get_*_profiles_from_url;             *)
(*   Spec       the command line operations end to end: fetch, cache,      *)
(*              parse, match, install;                                     *)
(*   SpecEntry  the parse of a catalog of one entry;                       *)
(*   SpecFetch  get_*_profiles_from_url statement by statement;            *)
(*   SpecLookup install and uninstall over repeated codenames;             *)
(*   SpecStatus get_status calls running at the same time;                 *)
(*   SpecRepass repeated set_available_profiles calls on one device.       *)
(***************************************************************************)
EXTENDS Integers, Sequences, FiniteSets, TLC

VARIABLES
    domain,              \* "usb" | "bt" | "dmi": which *_func.rs / lib module runs
    pc,                  \* position of the running operation
    device,              \* the device's identification attributes
    slot,                \* device.available_profiles: None or Some(list)
    profile_data,        \* the catalog handed to set_available_profiles
    available_profiles,  \* the local list set_available_profiles built
    slot_writes,         \* assignments to the slot made by the last pass
    shown,               \* what the profile listing printed
    entries,             \* the "profiles" array being parsed
    profiles_array,      \* the catalog built so far by the parse loop
    parsed,              \* number of entries consumed by the parse loop
    cache,               \* the domain's cache file /var/cache/cfhdb/<domain>.json
    run,                 \* what the current command line invocation did
    runs,                \* number of invocations so far
    last_wrote,          \* file left by the latest fetch that got a body and wrote
                         \* it (the pre-existing file before any such fetch)
    server,              \* the catalog document behind the profile URL
    frame,               \* the running get_xxx_profiles_from_url call, step by step
    check_cmd,           \* the file /var/cache/cfhdb/check_cmd.sh
    calls,               \* the running get_status calls, step by step
    passes               \* the match lists of the passes made over the device

matchVars == <<device, slot, profile_data, available_profiles, slot_writes, shown>>
parseVars == <<entries, profiles_array, parsed>>
cliVars == <<cache, run, runs, last_wrote, server>>
stepVars == <<frame, check_cmd, calls, passes>>
vars == <<domain, pc, matchVars, parseVars, cliVars, stepVars>>

Domains == {"usb", "bt", "dmi"}

(***************************************************************************)
(* Option<T>                                                               *)
(***************************************************************************)
None == [some |-> FALSE]
Some(x) == [some |-> TRUE, val |-> x]

(***************************************************************************)
(* Vec<String>::contains                                                   *)
(***************************************************************************)
Contains(list, s) == \E i \in 1..Len(list) : list[i] = s

(***************************************************************************)
(* serde_json::Value and the accessors the parser uses                     *)
(***************************************************************************)
Null == [t |-> "null"]
JStr(s) == [t |-> "str", v |-> s]
\* a JSON integer that fits an i64 (as_i64 is Some); n is the i64
JInt(n) == [t |-> "int", v |-> n]
\* a JSON integer above i64::MAX (as_i64 is None); n is its two words
JUInt(n) == [t |-> "uint", v |-> n]
JFloat(n) == [t |-> "float", v |-> n]
JBool(b) == [t |-> "bool", v |-> b]
JArr(a) == [t |-> "arr", v |-> a]
JObj(f) == [t |-> "obj", v |-> f]

\* value[key]: Null for a missing key and for a value that is no object
Index(value, key) ==
    IF value.t = "obj" /\ key \in DOMAIN value.v THEN value.v[key] ELSE Null

\* value.as_str().unwrap_or(default)
StrOr(value, default) == IF value.t = "str" THEN value.v ELSE default

\* match value.as_array() { Some(t) => t.map(as_str().unwrap_or_default()), None => vec![] }
StrVec(value) ==
    IF value.t = "arr"
    THEN [i \in 1..Len(value.v) |-> StrOr(value.v[i], "")]
    ELSE <<>>

\* value.as_bool().unwrap_or_default()
BoolOr(value) == IF value.t = "bool" THEN value.v ELSE FALSE

\* An i64 is held as two 32-bit words: the value is hi * 2^32 + (lo mod 2^32),
\* with lo the low word read as two's complement.  I64(n) is the i64 of an
\* integer n inside the i32 range (hi is the sign extension).
I64(n) == [hi |-> IF n < 0 THEN -1 ELSE 0, lo |-> n]

\* value.as_i64().unwrap_or_default()
I64Or(value) == IF value.t = "int" THEN value.v ELSE I64(0)

\* an i64 given by its two words
I64Words(hi, lo) == [hi |-> hi, lo |-> lo]

\* Variant of AsI32 (fault injection): a value outside the i32 range is
\* clamped to the nearest bound
AsI32Saturating(n) ==
    IF n.hi = (IF n.lo < 0 THEN -1 ELSE 0) THEN n.lo
    ELSE IF n.hi >= 0 THEN 2147483647 ELSE -2147483647 - 1

\* `priority as i32`: the cast keeps the low 32 bits of the i64 and reads
\* them as two's complement; the high word is dropped
AsI32(n) == n.lo

(***************************************************************************)
(* Field names of the three profile structs                                *)
(***************************************************************************)
WhitelistFields(d) ==
    CASE d = "usb" -> {"class_codes", "vendor_ids", "product_ids"}
      [] d = "bt"  -> {"class_ids", "bt_names", "modalias_vendor_ids",
                       "modalias_device_ids", "modalias_product_ids"}
      [] d = "dmi" -> {"bios_vendors", "board_asset_tags", "board_names",
                       "board_vendors", "product_families", "product_names",
                       "product_skus", "sys_vendors"}

BlacklistFields(d) ==
    CASE d = "usb" -> {"blacklisted_class_codes", "blacklisted_vendor_ids",
                       "blacklisted_product_ids"}
      [] d = "bt"  -> {"blacklisted_class_ids", "blacklisted_bt_names",
                       "blacklisted_modalias_vendor_ids",
                       "blacklisted_modalias_device_ids",
                       "blacklisted_modalias_product_ids"}
      [] d = "dmi" -> {"blacklisted_bios_vendors", "blacklisted_board_asset_tags",
                       "blacklisted_board_names", "blacklisted_board_vendors",
                       "blacklisted_product_families", "blacklisted_product_names",
                       "blacklisted_product_skus", "blacklisted_sys_vendors"}

\* the device attribute a profile list field is compared with
DeviceAttr(f) ==
    CASE f \in {"class_codes", "blacklisted_class_codes"} -> "class_code"
      [] f \in {"vendor_ids", "blacklisted_vendor_ids"} -> "vendor_id"
      [] f \in {"product_ids", "blacklisted_product_ids"} -> "product_id"
      [] f \in {"class_ids", "blacklisted_class_ids"} -> "class_id"
      [] f \in {"bt_names", "blacklisted_bt_names"} -> "name"
      [] f \in {"modalias_vendor_ids", "blacklisted_modalias_vendor_ids"} -> "modalias_vendor_id"
      [] f \in {"modalias_device_ids", "blacklisted_modalias_device_ids"} -> "modalias_device_id"
      [] f \in {"modalias_product_ids", "blacklisted_modalias_product_ids"} -> "modalias_product_id"
      [] f \in {"bios_vendors", "blacklisted_bios_vendors"} -> "bios_vendor"
      [] f \in {"board_asset_tags", "blacklisted_board_asset_tags"} -> "board_asset_tag"
      [] f \in {"board_names", "blacklisted_board_names"} -> "board_name"
      [] f \in {"board_vendors", "blacklisted_board_vendors"} -> "board_vendor"
      [] f \in {"product_families", "blacklisted_product_families"} -> "product_family"
      [] f \in {"product_names", "blacklisted_product_names"} -> "product_name"
      [] f \in {"product_skus", "blacklisted_product_skus"} -> "product_sku"
      [] f \in {"sys_vendors", "blacklisted_sys_vendors"} -> "sys_vendor"

DeviceAttrs(d) == {DeviceAttr(f) : f \in WhitelistFields(d)}

(***************************************************************************)
(* The parse loop of get_{usb,bt,dmi}_profiles_from_url, one catalog entry *)
(***************************************************************************)
Locale == "fr"

\* Variant of ParseI18nDesc (fault injection): the locale-qualified string is
\* taken also when it is empty
ParseI18nDescAnyLocalized(profile) ==
    LET localized == Index(profile, "i18n_desc[" \o Locale \o "]")
    IN  IF localized.t = "str"
        THEN localized.v
        ELSE StrOr(Index(profile, "i18n_desc"), "")

\* i18n_desc: the locale-qualified key when it is a non-empty string, else
\* the base key when it is a string, else ""
ParseI18nDesc(profile) ==
    LET localized == Index(profile, "i18n_desc[" \o Locale \o "]")
    IN  IF localized.t = "str" /\ localized.v # ""
        THEN localized.v
        ELSE StrOr(Index(profile, "i18n_desc"), "")

\* Variant of PackagesPanics (fault injection): a missing packages key is
\* let through
PackagesMissingAllowed(profile) ==
    Index(profile, "packages").t \notin {"str", "arr", "null"}

\* packages: a string gives None, an array gives Some(strings); on any other
\* shape `.as_array().expect(..)` panics
PackagesPanics(profile) == Index(profile, "packages").t \notin {"str", "arr"}

ParsePackages(profile) ==
    IF Index(profile, "packages").t = "str"
    THEN None
    ELSE Some(StrVec(Index(profile, "packages")))

\* Variant of ParseScript (fault injection): an empty script is no script
ParseScriptEmptyIsNone(profile, key) ==
    LET script_value == StrOr(Index(profile, key), "")
    IN  IF script_value \in {"Option::is_none", ""} THEN None ELSE Some(script_value)

\* Variant of ParseScript (fault injection): a value that is not a string is
\* no script
ParseScriptMissingIsNone(profile, key) ==
    LET script_value == Index(profile, key)
    IN  IF script_value.t # "str" \/ script_value.v = "Option::is_none"
        THEN None
        ELSE Some(script_value.v)

\* install_script / remove_script: "Option::is_none" gives None
ParseScript(profile, key) ==
    LET script_value == StrOr(Index(profile, key), "")
    IN  IF script_value = "Option::is_none" THEN None ELSE Some(script_value)

\* the struct literal `Cfhdb{Usb,Bt,Dmi}Profile { .. }`
ProfileStruct(d, profile) ==
    [f \in WhitelistFields(d) \cup BlacklistFields(d) |-> StrVec(Index(profile, f))]
    @@
    [codename       |-> StrOr(Index(profile, "codename"), ""),
     i18n_desc      |-> ParseI18nDesc(profile),
     icon_name      |-> StrOr(Index(profile, "icon_name"), "package-x-generic"),
     license        |-> StrOr(Index(profile, "license"), "unknown"),
     packages       |-> ParsePackages(profile),
     check_script   |-> StrOr(Index(profile, "check_script"), "false"),
     install_script |-> ParseScript(profile, "install_script"),
     remove_script  |-> ParseScript(profile, "remove_script"),
     experimental   |-> BoolOr(Index(profile, "experimental")),
     removable      |-> BoolOr(Index(profile, "removable")),
     veiled         |-> BoolOr(Index(profile, "veiled")),
     priority       |-> AsI32(I64Or(Index(profile, "priority")))]

\* Vec::sort_by_key(|x| x.priority): a stable sort, here by insertion
\* Variant of InsertByPriority (fault injection): an element is put in front
\* of the elements of equal priority
RECURSIVE InsertBeforeEqual(_, _)
InsertBeforeEqual(sorted, x) ==
    IF sorted = <<>> THEN <<x>>
    ELSE IF sorted[Len(sorted)].priority < x.priority
         THEN Append(sorted, x)
         ELSE Append(InsertBeforeEqual(SubSeq(sorted, 1, Len(sorted) - 1), x),
                     sorted[Len(sorted)])

RECURSIVE InsertByPriority(_, _)
InsertByPriority(sorted, x) ==
    IF sorted = <<>> THEN <<x>>
    ELSE IF sorted[Len(sorted)].priority <= x.priority
         THEN Append(sorted, x)
         ELSE Append(InsertByPriority(SubSeq(sorted, 1, Len(sorted) - 1), x),
                     sorted[Len(sorted)])

RECURSIVE SortByPriority(_)
SortByPriority(list) ==
    IF list = <<>> THEN <<>>
    ELSE InsertByPriority(SortByPriority(SubSeq(list, 1, Len(list) - 1)),
                          list[Len(list)])

\* one iteration of `for profile in profiles`: push, then sort
PushAndSort(d, array, profile) ==
    SortByPriority(Append(array, ProfileStruct(d, profile)))

(***************************************************************************)
(* set_available_profiles: the per-profile test of each domain             *)
(***************************************************************************)
\* Variant of UsbMatching (fault injection): a "*" in a blacklist is not
\* treated as a wildcard
UsbMatchingLiteralBlacklist(profile, dev) ==
    IF \/ Contains(profile.blacklisted_class_codes, dev.class_code)
       \/ Contains(profile.blacklisted_vendor_ids, dev.vendor_id)
       \/ Contains(profile.blacklisted_product_ids, dev.product_id)
    THEN FALSE
    ELSE /\ (Contains(profile.class_codes, "*") \/ Contains(profile.class_codes, dev.class_code))
         /\ (Contains(profile.vendor_ids, "*") \/ Contains(profile.vendor_ids, dev.vendor_id))
         /\ (Contains(profile.product_ids, "*") \/ Contains(profile.product_ids, dev.product_id))

UsbMatching(profile, dev) ==
    IF \/ Contains(profile.blacklisted_class_codes, "*")
       \/ Contains(profile.blacklisted_class_codes, dev.class_code)
       \/ Contains(profile.blacklisted_vendor_ids, "*")
       \/ Contains(profile.blacklisted_vendor_ids, dev.vendor_id)
       \/ Contains(profile.blacklisted_product_ids, "*")
       \/ Contains(profile.blacklisted_product_ids, dev.product_id)
    THEN FALSE
    ELSE /\ (Contains(profile.class_codes, "*") \/ Contains(profile.class_codes, dev.class_code))
         /\ (Contains(profile.vendor_ids, "*") \/ Contains(profile.vendor_ids, dev.vendor_id))
         /\ (Contains(profile.product_ids, "*") \/ Contains(profile.product_ids, dev.product_id))

\* the whitelist loop of the Bluetooth pass runs over four pairs; class_ids
\* is not among them
BtMatching(profile, dev) ==
    IF \/ Contains(profile.blacklisted_class_ids, "*")
       \/ Contains(profile.blacklisted_class_ids, dev.class_id)
       \/ Contains(profile.blacklisted_bt_names, "*")
       \/ Contains(profile.blacklisted_bt_names, dev.name)
       \/ Contains(profile.blacklisted_modalias_device_ids, "*")
       \/ Contains(profile.blacklisted_modalias_device_ids, dev.modalias_device_id)
       \/ Contains(profile.blacklisted_modalias_product_ids, "*")
       \/ Contains(profile.blacklisted_modalias_product_ids, dev.modalias_product_id)
       \/ Contains(profile.blacklisted_modalias_vendor_ids, "*")
       \/ Contains(profile.blacklisted_modalias_vendor_ids, dev.modalias_vendor_id)
    THEN FALSE
    ELSE \A pair \in {<<profile.bt_names, dev.name>>,
                      <<profile.modalias_device_ids, dev.modalias_device_id>>,
                      <<profile.modalias_product_ids, dev.modalias_product_id>>,
                      <<profile.modalias_vendor_ids, dev.modalias_vendor_id>>} :
             Contains(pair[1], "*") \/ Contains(pair[1], pair[2])

\* Variant of DmiMatching (fault injection): the whitelist loop stops at the
\* first field that matches instead of the first that does not
DmiMatchingAnyField(profile, dev) ==
    IF \E f \in {"bios_vendors", "board_asset_tags", "board_names", "board_vendors",
                 "product_families", "product_names", "product_skus", "sys_vendors"} :
          \/ Contains(profile["blacklisted_" \o f], "*")
          \/ Contains(profile["blacklisted_" \o f], dev[DeviceAttr(f)])
    THEN FALSE
    ELSE \E pair \in {<<profile.bios_vendors, dev.bios_vendor>>,
                      <<profile.board_asset_tags, dev.board_asset_tag>>,
                      <<profile.board_names, dev.board_name>>,
                      <<profile.board_vendors, dev.board_vendor>>,
                      <<profile.product_families, dev.product_family>>,
                      <<profile.product_names, dev.product_name>>,
                      <<profile.product_skus, dev.product_sku>>,
                      <<profile.sys_vendors, dev.sys_vendor>>} :
             Contains(pair[1], "*") \/ Contains(pair[1], pair[2])

DmiMatching(profile, dev) ==
    IF \/ Contains(profile.blacklisted_bios_vendors, "*")
       \/ Contains(profile.blacklisted_bios_vendors, dev.bios_vendor)
       \/ Contains(profile.blacklisted_board_asset_tags, "*")
       \/ Contains(profile.blacklisted_board_asset_tags, dev.board_asset_tag)
       \/ Contains(profile.blacklisted_board_names, "*")
       \/ Contains(profile.blacklisted_board_names, dev.board_name)
       \/ Contains(profile.blacklisted_board_vendors, "*")
       \/ Contains(profile.blacklisted_board_vendors, dev.board_vendor)
       \/ Contains(profile.blacklisted_product_families, "*")
       \/ Contains(profile.blacklisted_product_families, dev.product_family)
       \/ Contains(profile.blacklisted_product_names, "*")
       \/ Contains(profile.blacklisted_product_names, dev.product_name)
       \/ Contains(profile.blacklisted_product_skus, "*")
       \/ Contains(profile.blacklisted_product_skus, dev.product_sku)
       \/ Contains(profile.blacklisted_sys_vendors, "*")
       \/ Contains(profile.blacklisted_sys_vendors, dev.sys_vendor)
    THEN FALSE
    ELSE \A pair \in {<<profile.bios_vendors, dev.bios_vendor>>,
                      <<profile.board_asset_tags, dev.board_asset_tag>>,
                      <<profile.board_names, dev.board_name>>,
                      <<profile.board_vendors, dev.board_vendor>>,
                      <<profile.product_families, dev.product_family>>,
                      <<profile.product_names, dev.product_name>>,
                      <<profile.product_skus, dev.product_sku>>,
                      <<profile.sys_vendors, dev.sys_vendor>>} :
             Contains(pair[1], "*") \/ Contains(pair[1], pair[2])

Matching(d, profile, dev) ==
    CASE d = "usb" -> UsbMatching(profile, dev)
      [] d = "bt"  -> BtMatching(profile, dev)
      [] d = "dmi" -> DmiMatching(profile, dev)

\* Variant of PassLoop (fault injection): the slot is assigned in every
\* iteration, also while the local list is empty
RECURSIVE PassLoopAlwaysAssigns(_, _, _, _, _)
PassLoopAlwaysAssigns(d, data, dev, i, st) ==
    IF i > Len(data) THEN st
    ELSE LET list == IF Matching(d, data[i], dev)
                     THEN Append(st.list, data[i])
                     ELSE st.list
         IN  PassLoopAlwaysAssigns(d, data, dev, i + 1,
                      [list   |-> list,
                       slot   |-> Some(list),
                       writes |-> st.writes + 1])

\* Variant of PassLoop (fault injection): a matching profile is put at the
\* front of the local list
RECURSIVE PassLoopPrepend(_, _, _, _, _)
PassLoopPrepend(d, data, dev, i, st) ==
    IF i > Len(data) THEN st
    ELSE LET list == IF Matching(d, data[i], dev)
                     THEN <<data[i]>> \o st.list
                     ELSE st.list
         IN  PassLoopPrepend(d, data, dev, i + 1,
                      [list   |-> list,
                       slot   |-> IF list # <<>> THEN Some(list) ELSE st.slot,
                       writes |-> IF list # <<>> THEN st.writes + 1 ELSE st.writes])

\* `for profile in profile_data.iter()`: the body pushes a matching profile
\* and then, whenever the local list is non-empty, assigns a clone of it to
\* the slot.  st = [list, slot, writes] is the state carried by the loop.
RECURSIVE PassLoop(_, _, _, _, _)
PassLoop(d, data, dev, i, st) ==
    IF i > Len(data) THEN st
    ELSE LET list == IF Matching(d, data[i], dev)
                     THEN Append(st.list, data[i])
                     ELSE st.list
         IN  PassLoop(d, data, dev, i + 1,
                      [list   |-> list,
                       slot   |-> IF list # <<>> THEN Some(list) ELSE st.slot,
                       writes |-> IF list # <<>> THEN st.writes + 1 ELSE st.writes])

\* Variant of Pass (fault injection): the pass starts from an unset slot
PassFromUnset(d, data, dev, old_slot) ==
    PassLoop(d, data, dev, 1, [list |-> <<>>, slot |-> None, writes |-> 0])

Pass(d, data, dev, old_slot) ==
    PassLoop(d, data, dev, 1, [list |-> <<>>, slot |-> old_slot, writes |-> 0])

(***************************************************************************)
(* CfhdbXxxDevice::set_available_profiles(profile_data, device) and the    *)
(* profile listing of display_xxx_profiles                                 *)
(***************************************************************************)
SetAvailableProfiles(data) ==
    LET st == Pass(domain, data, device, slot)
    IN  /\ profile_data' = data
        /\ available_profiles' = st.list
        /\ slot' = st.slot
        /\ slot_writes' = st.writes

Codenames(list) == [i \in 1..Len(list) |-> list[i].codename]

\* the slot is cloned, sorted by priority and its codenames are printed; an
\* unset slot prints no_profiles_available_for_device and exits with 1
DisplayProfiles ==
    shown' = IF slot.some
             THEN Some(Codenames(SortByPriority(slot.val)))
             ELSE None

(***************************************************************************)
(* Results: Ok(value), Err(NotFound), or a panic that ends the process     *)
(***************************************************************************)
Ok(x) == [outcome |-> "ok", val |-> x]
ErrNotFound == [outcome |-> "err", kind |-> "NotFound"]
Panic == [outcome |-> "panic"]

(***************************************************************************)
(* The cache file and the text it holds.  A text is either a JSON document *)
(* (doc is its serde_json::Value) or something serde_json rejects.         *)
(***************************************************************************)
JsonText(doc) == [json |-> TRUE, doc |-> doc]
NotJson(text) == [json |-> FALSE, text |-> text]

Absent == [exists |-> FALSE]
Unreadable == [exists |-> TRUE, readable |-> FALSE]
File(text) == [exists |-> TRUE, readable |-> TRUE, content |-> text]

\* what File::create leaves when the write after it fails: an empty file
Truncated == File(NotJson(""))

(***************************************************************************)
(* get_{usb,bt,dmi}_profiles_from_url                                      *)
(***************************************************************************)
\* the loop over the "profiles" array, to its end or to the first panic
RECURSIVE ParseLoop(_, _, _, _)
ParseLoop(d, profiles, i, array) ==
    IF i > Len(profiles) THEN Ok(array)
    ELSE IF PackagesPanics(profiles[i]) THEN Panic
    ELSE ParseLoop(d, profiles, i + 1, PushAndSort(d, array, profiles[i]))

\* serde_json::from_str(&data).expect("Unable to parse"), then the loop when
\* res["profiles"] is an array
ParseData(d, data) ==
    IF ~data.json THEN Panic
    ELSE IF Index(data.doc, "profiles").t = "arr"
         THEN ParseLoop(d, Index(data.doc, "profiles").v, 1, <<>>)
         ELSE Ok(<<>>)

\* Variant of FetchData (fault injection): after a download the data is read
\* back from the cache file
FetchDataReadBack(file, request, create_ok, write_ok) ==
    LET written == IF request.kind = "ok"
                   THEN IF write_ok THEN File(request.body)
                        ELSE IF create_ok THEN Truncated ELSE file
                   ELSE file
    IN  IF request.kind = "ok_no_text"
        THEN [data |-> Panic, file |-> file]
        ELSE IF written.exists
             THEN IF written.readable
                  THEN [data |-> Ok(written.content), file |-> written]
                  ELSE [data |-> Panic, file |-> written]
             ELSE [data |-> ErrNotFound, file |-> written]

\* Variant of FetchData (fault injection): a failed request ends in
\* Err(NotFound) whether or not the cache file exists
FetchDataNoFallback(file, request, create_ok, write_ok) ==
    IF request.kind = "ok"
    THEN [data |-> Ok(request.body),
          file |-> IF write_ok THEN File(request.body)
                   ELSE IF create_ok THEN Truncated
                   ELSE file]
    ELSE IF request.kind = "ok_no_text"
    THEN [data |-> Panic, file |-> file]
    ELSE [data |-> ErrNotFound, file |-> file]

\* `let data = match client.get(URL).send() { .. }`: the text to parse and
\* the cache file afterwards.
\*   Ok(t):  t.text().unwrap(), then File::create and fs::write on the cache
\*           path, both results dropped; the data is the response text.
\*           send() is Ok for every response received, whatever its status.
\*   Err(_): the cache file's text when the path exists (read_to_string
\*           unwrapped), else Err(NotFound).
FetchData(file, request, create_ok, write_ok) ==
    IF request.kind = "ok"
    THEN [data |-> Ok(request.body),
          file |-> IF write_ok THEN File(request.body)
                   ELSE IF create_ok THEN Truncated
                   ELSE file]
    ELSE IF request.kind = "ok_no_text"
    THEN [data |-> Panic, file |-> file]
    ELSE IF file.exists
         THEN IF file.readable
              THEN [data |-> Ok(file.content), file |-> file]
              ELSE [data |-> Panic, file |-> file]
         ELSE [data |-> ErrNotFound, file |-> file]

\* the whole function: [result, file]
GetProfilesFromUrl(d, file, request, create_ok, write_ok) ==
    LET f == FetchData(file, request, create_ok, write_ok)
    IN  [result |-> IF f.data.outcome = "ok" THEN ParseData(d, f.data.val) ELSE f.data,
         file   |-> f.file]

(***************************************************************************)
(* Cfhdb{Usb,Bt,Dmi}Profile::get_profile_from_codename, get_status         *)
(***************************************************************************)
RECURSIVE FindCodename(_, _, _)
FindCodename(profiles, codename, i) ==
    IF i > Len(profiles) THEN ErrNotFound
    ELSE IF profiles[i].codename = codename THEN Ok(profiles[i])
    ELSE FindCodename(profiles, codename, i + 1)

\* Variant of GetProfileFromCodename (fault injection): the first profile
\* of the catalog when none has the codename
GetProfileFromCodenameOrFirst(codename, profiles) ==
    LET found == FindCodename(profiles, codename, 1)
    IN  IF found.outcome # "ok" /\ profiles # <<>> THEN Ok(profiles[1]) ELSE found

\* Variant of GetProfileFromCodename (fault injection): the last profile of
\* the catalog that has the codename
RECURSIVE FindCodenameLast(_, _, _)
FindCodenameLast(profiles, codename, i) ==
    IF i < 1 THEN ErrNotFound
    ELSE IF profiles[i].codename = codename THEN Ok(profiles[i])
    ELSE FindCodenameLast(profiles, codename, i - 1)

GetProfileFromCodenameLast(codename, profiles) ==
    FindCodenameLast(profiles, codename, Len(profiles))

GetProfileFromCodename(codename, profiles) == FindCodename(profiles, codename, 1)

\* what running check_cmd.sh through bash can give for a check script
ShellOutcomes(check_script) ==
    {"spawn_failed"}
        \cup (IF check_script = "false" THEN {} ELSE {"exit_0"})
        \cup (IF check_script = "true" THEN {} ELSE {"exit_nonzero"})

\* Variant of GetStatus (fault injection): true whenever bash was started
GetStatusAnyExit(io_ok, shell) ==
    IF ~io_ok THEN "panic"
    ELSE IF shell # "spawn_failed" THEN "true" ELSE "false"

\* get_status: the script file is opened, written and chmod-ed (each step
\* `expect`s, so a failure panics), then run; true iff the run is Ok
GetStatus(io_ok, shell) ==
    IF ~io_ok THEN "panic"
    ELSE IF shell = "exit_0" THEN "true" ELSE "false"

(***************************************************************************)
(* install_xxx_profile / uninstall_xxx_profile: the script handed to       *)
(* run_in_lock_script, as a list of its parts                              *)
(***************************************************************************)
\* a.join(" ")
RECURSIVE Join(_)
Join(a) ==
    IF a = <<>> THEN ""
    ELSE IF Len(a) = 1 THEN a[1]
    ELSE a[1] \o " " \o Join(Tail(a))

\* distro_packages_installer / distro_packages_uninstaller of crate::config
DistroPackages(action, package_list) == "pkg-" \o action \o " " \o package_list

\* Variant of BuildScript (fault injection): the script text is put in front
\* of the package-manager step
BuildScriptScriptFirst(action, script, packages) ==
    IF script.some
    THEN IF packages.some
         THEN <<<<"#! /bin/bash", "set -e", script.val, DistroPackages(action, Join(packages.val))>>>>
         ELSE <<<<"#! /bin/bash", "set -e", script.val>>>>
    ELSE IF packages.some
         THEN <<<<"#! /bin/bash", "set -e", DistroPackages(action, Join(packages.val))>>>>
         ELSE <<>>

\* the `match script { Some(t) => match packages {..}, None => match packages {..} }`
\* of both functions; <<>> when nothing is run
BuildScript(action, script, packages) ==
    IF script.some
    THEN IF packages.some
         THEN <<<<"#! /bin/bash", "set -e", DistroPackages(action, Join(packages.val)), script.val>>>>
         ELSE <<<<"#! /bin/bash", "set -e", script.val>>>>
    ELSE IF packages.some
         THEN <<<<"#! /bin/bash", "set -e", DistroPackages(action, Join(packages.val))>>>>
         ELSE <<>>


(***************************************************************************)
(* Inputs of Spec: response bodies, requests, devices, arguments           *)
(***************************************************************************)
MaxRuns == 2

\* the list field that names the device class (DMI has none: its first)
ClassField(d) ==
    CASE d = "usb" -> "class_codes"
      [] d = "bt"  -> "class_ids"
      [] d = "dmi" -> "bios_vendors"

Wildcards(d) == [f \in WhitelistFields(d) |-> JArr(<<JStr("*")>>)]

\* a catalog of four entries: drv (packages array, all three scripts),
\* fw (packages string, both scripts the sentinel, one class only, check
\* script "true"), tool (packages array, both scripts the sentinel) and
\* cfg (packages string, no script key at all)
CatalogDoc(d) ==
    JObj([profiles |-> JArr(<<
        JObj(Wildcards(d) @@
             [codename |-> JStr("drv"), priority |-> JInt(I64(5)),
              packages |-> JArr(<<JStr("p1"), JStr("p2")>>),
              check_script |-> JStr("test -e /opt/drv"),
              install_script |-> JStr("make install"),
              remove_script |-> JStr("make uninstall")]),
        JObj((ClassField(d) :> JArr(<<JStr("0102")>>)) @@ Wildcards(d) @@
             [codename |-> JStr("fw"), priority |-> JInt(I64(1)),
              packages |-> JStr("inline"),
              check_script |-> JStr("true"),
              install_script |-> JStr("Option::is_none"),
              remove_script |-> JStr("Option::is_none")]),
        JObj(Wildcards(d) @@
             [codename |-> JStr("tool"), priority |-> JInt(I64(5)),
              packages |-> JArr(<<JStr("t")>>),
              check_script |-> JStr("which tool"),
              install_script |-> JStr("Option::is_none"),
              remove_script |-> JStr("Option::is_none")]),
        JObj(Wildcards(d) @@
             [codename |-> JStr("cfg"), priority |-> JInt(I64(7)),
              packages |-> JStr("")])
    >>)])

\* the two-entry catalog of the end-to-end scenario; no entry has a packages
\* key
ScenarioDoc ==
    JObj([profiles |-> JArr(<<
        JObj([codename |-> JStr("a"), class_ids |-> JArr(<<JStr("*")>>),
              priority |-> JInt(I64(5)), check_script |-> JStr("true")]),
        JObj([codename |-> JStr("b"), class_ids |-> JArr(<<JStr("0102")>>),
              priority |-> JInt(I64(1)), check_script |-> JStr("false")])
    >>)])

\* the scenario's entries completed to what the parser and the matching
\* need: a packages string and "*" in the other whitelist fields
ScenarioFullDoc(d) ==
    JObj([profiles |-> JArr(<<
        JObj((ClassField(d) :> JArr(<<JStr("*")>>)) @@ Wildcards(d) @@
             [codename |-> JStr("a"), priority |-> JInt(I64(5)),
              check_script |-> JStr("true"), packages |-> JStr("")]),
        JObj((ClassField(d) :> JArr(<<JStr("0102")>>)) @@ Wildcards(d) @@
             [codename |-> JStr("b"), priority |-> JInt(I64(1)),
              check_script |-> JStr("false"), packages |-> JStr("")])
    >>)])

\* a catalog in which codenames repeat: three entries "dup" (priority 5,
\* then two of priority 1) and two entries without a codename (priority 2)
DupEntry(d, codename, priority, mark) ==
    JObj(Wildcards(d) @@
         (IF codename = Null THEN <<>> ELSE [codename |-> codename]) @@
         [priority |-> JInt(I64(priority)), packages |-> JStr(""),
          check_script |-> JStr("test -e /opt/" \o mark),
          install_script |-> JStr("install " \o mark),
          remove_script |-> JStr("remove " \o mark)])

DupDoc(d) ==
    JObj([profiles |-> JArr(<<
        DupEntry(d, JStr("dup"), 5, "high"),
        DupEntry(d, Null, 2, "anon first"),
        DupEntry(d, JStr("dup"), 1, "low first"),
        DupEntry(d, Null, 2, "anon second"),
        DupEntry(d, JStr("dup"), 1, "low second")
    >>)])

Docs(d) == {CatalogDoc(d), ScenarioDoc, ScenarioFullDoc(d)}

Bodies(d) ==
    {JsonText(doc) : doc \in Docs(d) \cup {DupDoc(d)}} \cup {NotJson("<html>")}

\* outcomes of client.get(URL).send() followed by t.text(): no response
\* (timeout, connection error), a response whose text cannot be read, or a
\* response with a status and a text
Requests(d) ==
    {[kind |-> "err"], [kind |-> "ok_no_text"]}
        \cup {[kind |-> "ok", status |-> 200, body |-> b] : b \in Bodies(d)}
        \cup {[kind |-> "ok", status |-> 404, body |-> NotJson("<html>")]}

NoRequest == [kind |-> "none"]

\* outcomes <<create_ok, write_ok>> of File::create and fs::write on the
\* cache path: both succeed, the file is created and the write fails, or
\* the path cannot be written at all
DiskOutcomes(request) ==
    IF request.kind = "ok"
    THEN {<<TRUE, TRUE>>, <<TRUE, FALSE>>, <<FALSE, FALSE>>}
    ELSE {<<TRUE, TRUE>>}

\* the cache files a process can find
Files(d) == {Absent, Unreadable, Truncated} \cup {File(b) : b \in Bodies(d)}

\* get_xxx_profiles_from_url, tabulated over the inputs above
Fetched ==
    [d \in Domains |->
        [file \in Files(d) |->
            [request \in Requests(d) |->
                [disk \in DiskOutcomes(request) |->
                    GetProfilesFromUrl(d, file, request, disk[1], disk[2])]]]]

\* outcomes <<io_ok, shell>> of get_status for a check script
StatusOutcomes(check_script) ==
    {<<FALSE, "spawn_failed">>}
        \cup {<<TRUE, sh>> : sh \in ShellOutcomes(check_script)}

\* the devices the adapters enumerate: class "a" or "0102", the rest "a"
CliDevices(d) ==
    {[x \in DeviceAttrs(d) |-> IF x = DeviceAttr(ClassField(d)) THEN c ELSE "a"] :
        c \in {"a", "0102"}}

\* the responses a request to a server holding that document can get: none,
\* one without a readable text, the document, or an error page
Responses(doc) ==
    {[kind |-> "err"], [kind |-> "ok_no_text"],
     [kind |-> "ok", status |-> 200, body |-> JsonText(doc)],
     [kind |-> "ok", status |-> 404, body |-> NotJson("<html>")]}

\* a catalog document an older cache file can hold
OtherDoc(d, doc) ==
    IF doc = CatalogDoc(d) THEN ScenarioFullDoc(d) ELSE CatalogDoc(d)

\* the codename arguments: those of the server's document and one of no
\* profile
CodenameArgs(doc) ==
    {StrOr(Index(Index(doc, "profiles").v[i], "codename"), "") :
        i \in 1..Len(Index(doc, "profiles").v)} \cup {"nope"}

(***************************************************************************)
(* The command line operations, each from start to process end             *)
(***************************************************************************)
Attempt(request, ok) ==
    IF request.kind = "ok" THEN (IF ok THEN "ok" ELSE "failed") ELSE "n/a"

Invoke ==
    /\ pc = "cli"
    /\ runs < MaxRuns
    /\ runs' = runs + 1
    /\ pc' = pc
    /\ UNCHANGED <<domain, parseVars, server, stepVars>>

FreshProcess ==
    /\ device' = <<>>
    /\ slot' = None
    /\ profile_data' = <<>>
    /\ available_profiles' = <<>>
    /\ slot_writes' = 0
    /\ shown' = None

\* the fetch an operation starts with, and its trace in the run record
Fetch(request, disk, f) ==
    /\ cache' = f.file
    /\ last_wrote' = IF request.kind = "ok" /\ disk[2] THEN f.file ELSE last_wrote

\* the message keys that differ between the domains
CacheNotFound(d) == d \o "_download_cache_not_found"
NoMatchingDevice(d) == "no_matching_" \o d \o "_device"
NoProfilesAvailable(d) ==
    IF d = "dmi" THEN "no_profiles_available_for_info"
    ELSE "no_profiles_available_for_device"

\* io::Error::new(kind, message), and the three the operations return
IoError(kind, message) == [kind |-> kind, message |-> message]
CacheNotFoundError(d) == IoError(ErrNotFound.kind, CacheNotFound(d))
NoDeviceError(d) == IoError("NotFound", "no " \o d \o " device with matching busid")
NoProfileError(d) ==
    IoError(ErrNotFound.kind, "no " \o d \o " profile with matching codename")

RunRecord(op, arg, request, disk, f, found, shell, status, ran, report, exit) ==
    [op      |-> op,
     arg     |-> arg,
     request |-> request,
     before  |-> cache,
     created |-> Attempt(request, disk[1]),
     written |-> Attempt(request, disk[2]),
     fetched |-> f.result,
     found   |-> found,
     shell   |-> shell,
     status  |-> status,
     ran     |-> ran,
     report  |-> report,
     exit    |-> exit,
     error   |-> IF f.result.outcome = "err" THEN Some(CacheNotFoundError(domain))
                 ELSE IF found = "err" THEN Some(NoProfileError(domain))
                 ELSE None,
     repeat  |-> op = "install" /\ run.op = "install" /\ run.arg = arg
                    /\ run.ran # <<>>]

\* Variant of InstallRan (fault injection): the status is evaluated and not
\* consulted
InstallRanUngated(status, profile) ==
    IF status \in {"true", "false"}
    THEN BuildScript("install", profile.install_script, profile.packages)
    ELSE <<>>

\* `if !profile.get_status() { .. run_in_lock_script(..) } else { println }`:
\* the scripts install_xxx_profile runs after the status evaluation
InstallRan(status, profile) ==
    IF status = "false"
    THEN BuildScript("install", profile.install_script, profile.packages)
    ELSE <<>>

\* Variant of UninstallRan (fault injection): the gate of install
UninstallRanInstallGate(status, profile) ==
    IF status = "false"
    THEN BuildScript("uninstall", profile.remove_script, profile.packages)
    ELSE <<>>

\* `if profile.get_status() { .. run_in_lock_script(..) } else { println }`
UninstallRan(status, profile) ==
    IF status = "true"
    THEN BuildScript("uninstall", profile.remove_script, profile.packages)
    ELSE <<>>

\* the fetch failed: the panic, or the error message and exit(1)
FetchFailed(op, arg, request, disk, f) ==
    run' = RunRecord(op, arg, request, disk, f, "n/a", "n/a", "n/a", <<>>,
                     IF f.result.outcome = "panic" THEN "panic"
                     ELSE CacheNotFound(domain),
                     IF f.result.outcome = "panic" THEN "panic" ELSE "1")

\* install_xxx_profile(codename): fetch, look the codename up, evaluate the
\* status, and run the install script unless the status is true
Install(codename, request, disk) ==
    LET f == Fetched[domain][cache][request][disk]
    IN  /\ Fetch(request, disk, f)
        /\ IF f.result.outcome # "ok"
           THEN FetchFailed("install", codename, request, disk, f)
           ELSE LET found == GetProfileFromCodename(codename, f.result.val)
                IN  IF found.outcome # "ok"
                    THEN run' = RunRecord("install", codename, request, disk, f, "err",
                                          "n/a", "n/a", <<>>,
                                          "no_matching_profile_codename", "1")
                    ELSE \E env \in StatusOutcomes(found.val.check_script) :
                            LET status == GetStatus(env[1], env[2])
                            IN  run' = RunRecord("install", codename, request, disk, f, "ok",
                                    IF env[1] THEN env[2] ELSE "n/a",
                                    status,
                                    InstallRan(status, found.val),
                                    CASE status = "panic" -> "panic"
                                      [] status = "true" -> "profile_already_installed"
                                      [] OTHER -> "",
                                    IF status = "panic" THEN "panic" ELSE "0")

\* uninstall_xxx_profile(codename): the same with the remove script, run
\* unless the status is false
Uninstall(codename, request, disk) ==
    LET f == Fetched[domain][cache][request][disk]
    IN  /\ Fetch(request, disk, f)
        /\ IF f.result.outcome # "ok"
           THEN FetchFailed("uninstall", codename, request, disk, f)
           ELSE LET found == GetProfileFromCodename(codename, f.result.val)
                IN  IF found.outcome # "ok"
                    THEN run' = RunRecord("uninstall", codename, request, disk, f, "err",
                                          "n/a", "n/a", <<>>,
                                          "no_matching_profile_codename", "1")
                    ELSE \E env \in StatusOutcomes(found.val.check_script) :
                            LET status == GetStatus(env[1], env[2])
                            IN  run' = RunRecord("uninstall", codename, request, disk, f, "ok",
                                    IF env[1] THEN env[2] ELSE "n/a",
                                    status,
                                    UninstallRan(status, found.val),
                                    CASE status = "panic" -> "panic"
                                      [] status = "false" -> "profile_not_installed"
                                      [] OTHER -> "",
                                    IF status = "panic" THEN "panic" ELSE "0")

InstallProfile ==
    /\ Invoke
    /\ FreshProcess
    /\ \E codename \in CodenameArgs(server), request \in Responses(server) :
          \E disk \in DiskOutcomes(request) : Install(codename, request, disk)

UninstallProfile ==
    /\ Invoke
    /\ FreshProcess
    /\ \E codename \in CodenameArgs(server), request \in Responses(server) :
          \E disk \in DiskOutcomes(request) : Uninstall(codename, request, disk)

\* display_xxx_profiles(json = true, target) for a target that exists: the
\* catalog is fetched, the device matched and the codenames of its slot
\* listed
ListProfiles(target, request, disk) ==
    LET f == Fetched[domain][cache][request][disk]
    IN  /\ Fetch(request, disk, f)
        /\ device' = target
        /\ IF f.result.outcome # "ok"
           THEN /\ FetchFailed("display", "", request, disk, f)
                /\ slot' = None
                /\ profile_data' = <<>>
                /\ available_profiles' = <<>>
                /\ slot_writes' = 0
                /\ shown' = None
           ELSE LET st == Pass(domain, f.result.val, target, None)
                IN  /\ profile_data' = f.result.val
                    /\ available_profiles' = st.list
                    /\ slot' = st.slot
                    /\ slot_writes' = st.writes
                    /\ shown' = IF st.slot.some
                                THEN Some(Codenames(SortByPriority(st.slot.val)))
                                ELSE None
                    /\ run' = RunRecord("display", "", request, disk, f, "n/a", "n/a", "n/a",
                                  <<>>,
                                  IF st.slot.some THEN ""
                                  ELSE NoProfilesAvailable(domain),
                                  IF st.slot.some THEN "0" ELSE "1")

DisplayProfilesOfDevice ==
    /\ Invoke
    /\ \E target \in CliDevices(domain), request \in Responses(server) :
          \E disk \in DiskOutcomes(request) : ListProfiles(target, request, disk)

\* display_usb_profiles / display_bt_profiles with a target no device has
DisplayNoDevice ==
    /\ Invoke
    /\ domain \in {"usb", "bt"}
    /\ FreshProcess
    /\ run' = [op |-> "display", arg |-> "", request |-> NoRequest, before |-> cache,
               created |-> "n/a", written |-> "n/a", fetched |-> ErrNotFound,
               found |-> "n/a", shell |-> "n/a", status |-> "n/a", ran |-> <<>>,
               report |-> NoMatchingDevice(domain), exit |-> "1",
               error |-> Some(NoDeviceError(domain)), repeat |-> FALSE]
    /\ UNCHANGED <<cache, last_wrote>>

MatchIdle ==
    /\ device = <<>>
    /\ slot = None
    /\ profile_data = <<>>
    /\ available_profiles = <<>>
    /\ slot_writes = 0
    /\ shown = None

ParseIdle ==
    /\ entries = <<>>
    /\ profiles_array = <<>>
    /\ parsed = 0

NoRun ==
    [op |-> "none", arg |-> "", request |-> NoRequest, before |-> Absent,
     created |-> "n/a", written |-> "n/a", fetched |-> ErrNotFound,
     found |-> "n/a", shell |-> "n/a", status |-> "n/a", ran |-> <<>>, report |-> "",
     exit |-> "0", error |-> None,
     repeat |-> FALSE]

\* no call of get_xxx_profiles_from_url is running
NoFrame ==
    [op |-> "none", calls |-> 0, sent |-> 0, request |-> [kind |-> "none"],
     before |-> Absent, created |-> FALSE, written |-> FALSE, data |-> None,
     result |-> None]

StepIdle ==
    /\ frame = NoFrame
    /\ check_cmd = Absent
    /\ calls = <<>>
    /\ passes = <<>>

CliIdle ==
    /\ StepIdle
    /\ cache = Absent
    /\ run = NoRun
    /\ runs = 0
    /\ last_wrote = Absent
    /\ server = Null

Init ==
    /\ domain \in Domains
    /\ pc = "cli"
    /\ server \in Docs(domain)
    /\ cache \in {Absent, Unreadable, File(JsonText(server)),
                  File(JsonText(OtherDoc(domain, server)))}
    /\ last_wrote = cache
    /\ StepIdle
    /\ run = NoRun
    /\ runs = 0
    /\ MatchIdle
    /\ ParseIdle

Next ==
    \/ InstallProfile
    \/ UninstallProfile
    \/ DisplayProfilesOfDevice
    \/ DisplayNoDevice

Spec == Init /\ [][Next]_vars

(***************************************************************************)
(* Inputs of SpecMatch                                                     *)
(***************************************************************************)
MaxCatalog == 2

DevVals == {"a", "b"}
ListChoices == {<<>>, <<"*">>, <<"c", "a">>}

\* devices: every attribute "a", at most one of them "b"
Devices(d) ==
    {dev \in [DeviceAttrs(d) -> DevVals] :
        Cardinality({x \in DeviceAttrs(d) : dev[x] = "b"}) <= 1}

\* a catalog entry whose whitelist fields are all ["*"]
WildEntry(d, codename, priority) ==
    JObj([k \in WhitelistFields(d) \cup {"codename", "priority", "packages"} |->
            CASE k = "codename" -> JStr(codename)
              [] k = "priority" -> JInt(I64(priority))
              [] k = "packages" -> JStr("")
              [] OTHER -> JArr(<<JStr("*")>>)])

\* a catalog entry without any list field
BareEntry(codename, priority) ==
    JObj([codename |-> JStr(codename), priority |-> JInt(I64(priority)),
          packages |-> JStr("")])

\* the parsed forms of the two entries, per domain
WildUsb == ProfileStruct("usb", WildEntry("usb", "", 0))
WildBt == ProfileStruct("bt", WildEntry("bt", "", 0))
WildDmi == ProfileStruct("dmi", WildEntry("dmi", "", 0))
BareUsb == ProfileStruct("usb", BareEntry("", 0))
BareBt == ProfileStruct("bt", BareEntry("", 0))
BareDmi == ProfileStruct("dmi", BareEntry("", 0))

Parsed(d, kind) ==
    CASE d = "usb" -> IF kind = "wild" THEN WildUsb ELSE BareUsb
      [] d = "bt"  -> IF kind = "wild" THEN WildBt ELSE BareBt
      [] d = "dmi" -> IF kind = "wild" THEN WildDmi ELSE BareDmi

Filler(d, kind, codename, priority) ==
    [Parsed(d, kind) EXCEPT !.codename = codename, !.priority = priority]

\* the all-wildcard profile with one whitelist field and one blacklist field
\* replaced
Probe(d, codename, priority, w, wl, b, bl) ==
    [Parsed(d, "wild") EXCEPT !.codename = codename, !.priority = priority,
                              ![w] = wl, ![b] = bl]

PositionName(i) == "p" \o ToString(i)

\* ascending priorities for a catalog of n profiles, as the parser leaves
\* them: the first is 0 and each next one is equal or one higher
SortedPriorities(n) ==
    {f \in [1..n -> 0..(n - 1)] :
        /\ f[1] = 0
        /\ \A i \in 1..(n - 1) : f[i + 1] \in {f[i], f[i] + 1}}

\* a catalog of n profiles: the probe at position k among fillers of one kind
MatchCatalog(d, n, k, w, wl, b, bl, kind, prio) ==
    [i \in 1..n |->
        IF i = k
        THEN Probe(d, PositionName(i), prio[i], w, wl, b, bl)
        ELSE Filler(d, kind, PositionName(i), prio[i])]

(***************************************************************************)
(* SpecLookup: install and uninstall over the catalog with repeated        *)
(* codenames                                                               *)
(***************************************************************************)
InitLookup ==
    /\ domain \in Domains
    /\ pc = "cli"
    /\ server = DupDoc(domain)
    /\ cache \in {Absent, Unreadable, File(JsonText(server)),
                  File(JsonText(OtherDoc(domain, server)))}
    /\ last_wrote = cache
    /\ StepIdle
    /\ run = NoRun
    /\ runs = 0
    /\ MatchIdle
    /\ ParseIdle

NextLookup == InstallProfile \/ UninstallProfile

SpecLookup == InitLookup /\ [][NextLookup]_vars

(***************************************************************************)
(* SpecMatch: one matching pass over a fresh device, then the listing      *)
(***************************************************************************)
InitMatch ==
    /\ domain \in Domains
    /\ device \in Devices(domain)
    /\ pc = "fresh"
    /\ slot = None
    /\ profile_data = <<>>
    /\ available_profiles = <<>>
    /\ slot_writes = 0
    /\ shown = None
    /\ ParseIdle
    /\ CliIdle

MatchPass ==
    /\ pc = "fresh"
    /\ \E n \in 1..MaxCatalog :
       \E k \in 1..n, kind \in {"wild", "bare"}, prio \in SortedPriorities(n) :
       \E w \in WhitelistFields(domain), wl \in ListChoices :
       \E b \in BlacklistFields(domain), bl \in ListChoices :
          SetAvailableProfiles(MatchCatalog(domain, n, k, w, wl, b, bl, kind, prio))
    /\ pc' = "matched"
    /\ UNCHANGED <<domain, device, shown, parseVars, cliVars, stepVars>>

MatchDisplay ==
    /\ pc = "matched"
    /\ DisplayProfiles
    /\ pc' = "shown"
    /\ UNCHANGED <<domain, device, slot, profile_data, available_profiles,
                   slot_writes, parseVars, cliVars, stepVars>>

NextMatch == MatchPass \/ MatchDisplay

SpecMatch == InitMatch /\ [][NextMatch]_vars

(***************************************************************************)
(* SpecParse: the loop `for profile in profiles` of                        *)
(* get_{usb,bt,dmi}_profiles_from_url, one iteration per step              *)
(***************************************************************************)
MaxEntries == 3

\* values of the priority key: missing, integers inside the i32 range, a
\* string, a float, and the integers 2^32 + 1, 2^31 + 1 and
\* 2^63 + 2^32 + 5
PriorityValues ==
    {Null, JInt(I64(-1)), JInt(I64(0)), JInt(I64(1)), JStr("1"), JFloat("1.5"),
     JInt(I64Words(1, 1)), JInt(I64Words(0, -2147483647)),
     JUInt(I64Words(-2147483647, 5))}

\* values of the packages key: a string, arrays (of strings, and with a
\* number in it), missing, a boolean
PackagesValues ==
    {JStr("pkg"), JArr(<<JStr("x"), JStr("y")>>), JArr(<<JInt(I64(7)), JStr("y")>>),
     Null, JBool(TRUE)}

EntryName(i) == "e" \o ToString(i)

\* the i-th entry of the input array; a Null value stands for a missing key
ParseEntryValue(i, priority, packages) ==
    JObj([k \in {"codename"}
                \cup (IF priority = Null THEN {} ELSE {"priority"})
                \cup (IF packages = Null THEN {} ELSE {"packages"}) |->
            CASE k = "codename" -> JStr(EntryName(i))
              [] k = "priority" -> priority
              [] k = "packages" -> packages])

\* the entries the input array can hold at a position
ParseInputs(i) ==
    {ParseEntryValue(i, priority, JStr("pkg")) : priority \in PriorityValues}
        \cup {ParseEntryValue(i, JInt(I64(0)), packages) : packages \in PackagesValues}

InitParse ==
    /\ domain \in Domains
    /\ pc = "parsing"
    /\ entries = <<>>
    /\ profiles_array = <<>>
    /\ parsed = 0
    /\ MatchIdle
    /\ CliIdle

\* one iteration over the next entry of the input array (entries holds the
\* array as far as the loop has read it): the struct is built (a packages
\* value that is neither a string nor an array panics), pushed, and the
\* array is sorted
ParseEntry ==
    /\ pc = "parsing"
    /\ parsed < MaxEntries
    /\ \E profile \in ParseInputs(parsed + 1) :
          /\ entries' = Append(entries, profile)
          /\ IF PackagesPanics(profile)
             THEN /\ pc' = "panicked"
                  /\ UNCHANGED <<profiles_array, parsed>>
             ELSE /\ profiles_array' = PushAndSort(domain, profiles_array, profile)
                  /\ parsed' = parsed + 1
                  /\ pc' = pc
    /\ UNCHANGED <<domain, matchVars, cliVars, stepVars>>

\* the input array has no further entry: Ok(profiles_array)
ParseReturn ==
    /\ pc = "parsing"
    /\ pc' = "returned"
    /\ UNCHANGED <<domain, entries, profiles_array, parsed, matchVars, cliVars, stepVars>>

NextParse == ParseEntry \/ ParseReturn

SpecParse == InitParse /\ [][NextParse]_vars

(***************************************************************************)
(* SpecEntry: get_{usb,bt,dmi}_profiles_from_url on a catalog of one entry *)
(***************************************************************************)
\* values of install_script and remove_script: the sentinel, texts (the
\* empty one, one that contains the sentinel), missing, a number
ScriptValues ==
    {JStr("Option::is_none"), JStr("make"), JStr(""), JStr(" Option::is_none"),
     Null, JInt(I64(1))}

\* values of the locale-qualified and of the base description key
DescValues == {Null, JStr(""), JStr("texte"), JStr("desc"), JBool(TRUE)}

\* an entry from the values of its keys; Null stands for a missing key
EntryValue(keys) ==
    JObj([k \in {k \in DOMAIN keys : keys[k] # Null} |-> keys[k]])

ParseSingle ==
    /\ pc = "entry"
    /\ \E install \in ScriptValues, remove \in ScriptValues,
          localized \in DescValues, base \in DescValues, other \in {Null, JStr("Text")} :
          LET profile == EntryValue(
                  ("i18n_desc[" \o Locale \o "]" :> localized)
                  @@ ("i18n_desc[de]" :> other)
                  @@ [codename |-> JStr(EntryName(1)), packages |-> JStr("pkg"),
                      install_script |-> install, remove_script |-> remove,
                      i18n_desc |-> base])
              fetched == ParseData(domain, JsonText(JObj([profiles |-> JArr(<<profile>>)])))
          IN  /\ entries' = <<profile>>
              /\ profiles_array' = fetched.val
              /\ parsed' = Len(fetched.val)
    /\ pc' = "returned"
    /\ UNCHANGED <<domain, matchVars, cliVars, stepVars>>

InitEntry ==
    /\ domain \in Domains
    /\ pc = "entry"
    /\ ParseIdle
    /\ MatchIdle
    /\ CliIdle

NextEntry == ParseSingle

SpecEntry == InitEntry /\ [][NextEntry]_vars

\* the one entry was parsed
EntryParsed == pc = "returned" /\ Len(entries) = 1 /\ Len(profiles_array) = 1

\* C16: install_script and remove_script: exactly the string
\* "Option::is_none" gives no script; every other string, the empty string
\* included, is kept unchanged as the script text.
C16_ScriptSentinel ==
    EntryParsed =>
        \A key \in {"install_script", "remove_script"} :
            LET value == Index(entries[1], key)
            IN  value.t = "str" =>
                   /\ value.v = "Option::is_none" => profiles_array[1][key] = None
                   /\ value.v # "Option::is_none" =>
                         profiles_array[1][key] = Some(value.v)

C16_Witness ==
    /\ EntryParsed
    /\ Index(entries[1], "install_script") = JStr("")
    /\ Index(entries[1], "remove_script") = JStr("Option::is_none")
    /\ profiles_array[1].install_script = Some("")
    /\ profiles_array[1].remove_script = None

\* C17: the description is the locale-qualified key when that is a
\* non-empty string, else the base key i18n_desc when that is a string, else
\* the empty string; an empty locale-qualified value with i18n_desc = "desc"
\* gives "desc".
C17_DescriptionFallback ==
    EntryParsed =>
        LET localized == Index(entries[1], "i18n_desc[" \o Locale \o "]")
            base == Index(entries[1], "i18n_desc")
        IN  profiles_array[1].i18n_desc =
               IF localized.t = "str" /\ localized.v # "" THEN localized.v
               ELSE IF base.t = "str" THEN base.v
               ELSE ""

C17_Witness ==
    /\ EntryParsed
    /\ Index(entries[1], "i18n_desc[" \o Locale \o "]") = JStr("")
    /\ Index(entries[1], "i18n_desc") = JStr("desc")
    /\ profiles_array[1].i18n_desc = "desc"

(***************************************************************************)
(* SpecFetch: get_{usb,bt,dmi}_profiles_from_url, one statement per step,  *)
(* called by install, uninstall and display                                *)
(***************************************************************************)
\* what the steps of the fetch leave alone
fetchRest ==
    <<domain, matchVars, parseVars, run, last_wrote, server, check_cmd, calls, passes>>

\* install_xxx_profile / uninstall_xxx_profile / display_xxx_profiles call
\* get_xxx_profiles_from_url as their first statement
FetchCall ==
    /\ pc = "cli"
    /\ runs < MaxRuns
    /\ runs' = runs + 1
    /\ \E op \in {"install", "uninstall", "display"} :
          frame' = [NoFrame EXCEPT !.op = op, !.calls = 1, !.before = cache]
    /\ pc' = "send"
    /\ UNCHANGED <<cache, fetchRest>>

\* client.get(URL).send()
FetchSend ==
    /\ pc = "send"
    /\ \E request \in Responses(server) :
          /\ frame' = [frame EXCEPT !.sent = @ + 1, !.request = request]
          /\ pc' = IF request.kind = "err" THEN "failed" ELSE "text"
    /\ UNCHANGED <<runs, cache, fetchRest>>

\* Variant of FetchCacheExists (fault injection): a failed request is sent
\* once more before the cache is looked at
FetchCacheExistsRetry ==
    /\ pc = "failed"
    /\ IF frame.sent < 2
       THEN /\ pc' = "send"
            /\ UNCHANGED frame
       ELSE IF cache.exists
            THEN /\ pc' = "read"
                 /\ UNCHANGED frame
            ELSE /\ pc' = "returned"
                 /\ frame' = [frame EXCEPT !.result = Some(ErrNotFound)]
    /\ UNCHANGED <<runs, cache, fetchRest>>

\* Err(_) => if cached_db_path.exists() { .. } else { return Err(NotFound) }
FetchCacheExists ==
    /\ pc = "failed"
    /\ IF cache.exists
       THEN /\ pc' = "read"
            /\ UNCHANGED frame
       ELSE /\ pc' = "returned"
            /\ frame' = [frame EXCEPT !.result = Some(ErrNotFound)]
    /\ UNCHANGED <<runs, cache, fetchRest>>

\* fs::read_to_string(cached_db_path).unwrap()
FetchCacheRead ==
    /\ pc = "read"
    /\ IF cache.readable
       THEN /\ pc' = "parse"
            /\ frame' = [frame EXCEPT !.data = Some(cache.content)]
       ELSE /\ pc' = "panicked"
            /\ frame' = [frame EXCEPT !.result = Some(Panic)]
    /\ UNCHANGED <<runs, cache, fetchRest>>

\* Ok(t) => let cache = t.text().unwrap()
FetchText ==
    /\ pc = "text"
    /\ IF frame.request.kind = "ok"
       THEN /\ pc' = "create"
            /\ frame' = [frame EXCEPT !.data = Some(frame.request.body)]
       ELSE /\ pc' = "panicked"
            /\ frame' = [frame EXCEPT !.result = Some(Panic)]
    /\ UNCHANGED <<runs, cache, fetchRest>>

\* let _ = fs::File::create(cached_db_path)
FetchCreate ==
    /\ pc = "create"
    /\ \E create_ok \in BOOLEAN :
          /\ cache' = IF create_ok THEN Truncated ELSE cache
          /\ frame' = [frame EXCEPT !.created = create_ok]
    /\ pc' = "write"
    /\ UNCHANGED <<runs, fetchRest>>

\* let _ = fs::write(cached_db_path, &cache)
FetchWrite ==
    /\ pc = "write"
    /\ \E write_ok \in (IF frame.created THEN BOOLEAN ELSE {FALSE}) :
          /\ cache' = IF write_ok THEN File(frame.data.val) ELSE cache
          /\ frame' = [frame EXCEPT !.written = write_ok]
    /\ pc' = "parse"
    /\ UNCHANGED <<runs, fetchRest>>

\* serde_json::from_str(&data).expect(..), the loop, Ok(profiles_array)
FetchParse ==
    /\ pc = "parse"
    /\ LET result == ParseData(domain, frame.data.val)
       IN  /\ frame' = [frame EXCEPT !.result = Some(result)]
           /\ pc' = IF result = Panic THEN "panicked" ELSE "returned"
    /\ UNCHANGED <<runs, cache, fetchRest>>

\* the rest of the operation (lookup, status, script or listing), or the
\* end of the process by the panic
OperationEnds ==
    /\ pc \in {"returned", "panicked"}
    /\ pc' = "cli"
    /\ UNCHANGED <<runs, cache, frame, fetchRest>>

InitFetch ==
    /\ domain \in Domains
    /\ pc = "cli"
    /\ server \in Docs(domain)
    /\ cache \in {Absent, Unreadable, File(JsonText(server)),
                  File(JsonText(OtherDoc(domain, server)))}
    /\ last_wrote = cache
    /\ frame = NoFrame
    /\ check_cmd = Absent
    /\ calls = <<>>
    /\ passes = <<>>
    /\ run = NoRun
    /\ runs = 0
    /\ MatchIdle
    /\ ParseIdle

NextFetch ==
    \/ FetchCall
    \/ FetchSend
    \/ FetchCacheExists
    \/ FetchCacheRead
    \/ FetchText
    \/ FetchCreate
    \/ FetchWrite
    \/ FetchParse
    \/ OperationEnds

SpecFetch == InitFetch /\ [][NextFetch]_vars

(***************************************************************************)
(* SpecStatus: get_status calls that run at the same time, in one process  *)
(* or in several, one statement per step.  A text is the sequence of its   *)
(* words.                                                                  *)
(***************************************************************************)
MaxCalls == 2

\* the check scripts of the profiles whose status is evaluated
CheckScripts == {<<"true">>, <<"which", "tool">>, <<"test", "-e", "/opt/drv">>}

\* format!("#! /bin/bash\nset -e\n{} > /dev/null 2>&1", self.check_script)
CheckCmdText(check_script) ==
    <<"#! /bin/bash", "set -e">> \o check_script \o <<"> /dev/null 2>&1">>

\* write_all through a descriptor at offset 0 onto what the file holds
Overlay(new, old) ==
    IF Len(new) >= Len(old) THEN new ELSE new \o SubSeq(old, Len(new) + 1, Len(old))

\* what the steps of get_status leave alone
statusRest == <<domain, pc, matchVars, parseVars, cliVars, frame, passes>>

StartCall(check_script) ==
    [pc |-> "start", check_script |-> check_script, ran |-> None]

\* OpenOptions::new().write(true).create(true).truncate(true).open(..).expect(..)
StatusOpen(i) ==
    /\ calls[i].pc = "start"
    /\ \E io_ok \in BOOLEAN :
          IF io_ok
          THEN /\ check_cmd' = File(<<>>)
               /\ calls' = [calls EXCEPT ![i].pc = "opened"]
          ELSE /\ calls' = [calls EXCEPT ![i].pc = "panicked"]
               /\ UNCHANGED check_cmd
    /\ UNCHANGED statusRest

\* file.write_all(..).expect(..)
StatusWrite(i) ==
    /\ calls[i].pc = "opened"
    /\ \E io_ok \in BOOLEAN :
          IF io_ok
          THEN /\ check_cmd' = File(Overlay(CheckCmdText(calls[i].check_script),
                                            check_cmd.content))
               /\ calls' = [calls EXCEPT ![i].pc = "written"]
          ELSE /\ calls' = [calls EXCEPT ![i].pc = "panicked"]
               /\ UNCHANGED check_cmd
    /\ UNCHANGED statusRest

\* file.metadata().expect(..) and fs::set_permissions(..).expect(..)
StatusSetPermissions(i) ==
    /\ calls[i].pc = "written"
    /\ \E io_ok \in BOOLEAN :
          calls' = [calls EXCEPT ![i].pc = IF io_ok THEN "executable" ELSE "panicked"]
    /\ UNCHANGED <<check_cmd, statusRest>>

\* duct::cmd!("bash", "-c", file_path).run(): bash runs what the file holds
StatusRun(i) ==
    /\ calls[i].pc = "executable"
    /\ calls' = [calls EXCEPT ![i].pc = "done", ![i].ran = Some(check_cmd.content)]
    /\ UNCHANGED <<check_cmd, statusRest>>

InitStatus ==
    /\ domain \in Domains
    /\ pc = "status"
    /\ calls \in [1..MaxCalls -> {StartCall(c) : c \in CheckScripts}]
    /\ check_cmd = Absent
    /\ frame = NoFrame
    /\ passes = <<>>
    /\ cache = Absent
    /\ run = NoRun
    /\ runs = 0
    /\ last_wrote = Absent
    /\ server = Null
    /\ MatchIdle
    /\ ParseIdle

NextStatus ==
    \E i \in 1..MaxCalls :
        \/ StatusOpen(i)
        \/ StatusWrite(i)
        \/ StatusSetPermissions(i)
        \/ StatusRun(i)

SpecStatus == InitStatus /\ [][NextStatus]_vars

(***************************************************************************)
(* SpecRepass: set_available_profiles called again and again on one device *)
(***************************************************************************)
MaxPasses == 3

\* the catalogs of pass k: up to MaxCatalog profiles, each either with "*" in
\* every whitelist field or without any list field, all of priority k
RepassCatalogs(d, k) ==
    UNION {{[i \in 1..n |-> Filler(d, kind[i], PositionName(i), k)] :
               kind \in [1..n -> {"wild", "bare"}]} : n \in 0..MaxCatalog}

Repass ==
    /\ pc = "device"
    /\ Len(passes) < MaxPasses
    /\ \E catalog \in RepassCatalogs(domain, Len(passes) + 1) :
          SetAvailableProfiles(catalog)
    /\ passes' = Append(passes, available_profiles')
    /\ UNCHANGED <<domain, pc, device, shown, parseVars, cliVars, frame, check_cmd, calls>>

InitRepass ==
    /\ domain \in Domains
    /\ pc = "device"
    /\ device = [x \in DeviceAttrs(domain) |-> "a"]
    /\ slot = None
    /\ profile_data = <<>>
    /\ available_profiles = <<>>
    /\ slot_writes = 0
    /\ shown = None
    /\ ParseIdle
    /\ CliIdle

NextRepass == Repass

SpecRepass == InitRepass /\ [][NextRepass]_vars

(***************************************************************************)
(* The matching rule as the specification words it                         *)
(***************************************************************************)
\* some blacklist field of P holds "*" or D's corresponding attribute
Blacklisted(d, P, D) ==
    \E f \in BlacklistFields(d) :
        Contains(P[f], "*") \/ Contains(P[f], D[DeviceAttr(f)])

\* every whitelist field of P holds "*" or D's corresponding attribute
Whitelisted(d, P, D) ==
    \A f \in WhitelistFields(d) :
        Contains(P[f], "*") \/ Contains(P[f], D[DeviceAttr(f)])

InList(list, P) == \E i \in 1..Len(list) : list[i] = P

PassDone == pc \in {"matched", "shown"}

\* list is catalog with some elements left out, order kept
IsSubsequence(list, catalog) ==
    \E f \in [1..Len(list) -> 1..Len(catalog)] :
        /\ \A i \in 1..Len(list) : list[i] = catalog[f[i]]
        /\ \A i \in 1..(Len(list) - 1) : f[i] < f[i + 1]

AscendingPriority(list) ==
    \A i \in 1..(Len(list) - 1) : list[i].priority <= list[i + 1].priority

\* C1: in every domain, a profile of the catalog one of whose blacklist
\* fields holds "*" or the device's attribute is not in the list stored in
\* the device's slot, whatever its whitelist fields hold.
C1_BlacklistExcludes ==
    PassDone =>
        \A i \in 1..Len(profile_data) :
            Blacklisted(domain, profile_data[i], device) =>
                ~(slot.some /\ InList(slot.val, profile_data[i]))

\* C1 witness: a pass stored a list although the catalog holds a profile that
\* is blacklisted by the device's own attribute value while all its
\* whitelist fields accept the device (checked here for Bluetooth).
C1_Witness ==
    /\ domain = "bt"
    /\ pc = "matched"
    /\ slot.some
    /\ \E i \in 1..Len(profile_data) :
          /\ Whitelisted(domain, profile_data[i], device)
          /\ \E f \in BlacklistFields(domain) :
                /\ ~Contains(profile_data[i][f], "*")
                /\ Contains(profile_data[i][f], device[DeviceAttr(f)])

\* C2: USB and DMI: a profile of the catalog is in the match result iff it
\* is not blacklisted and every whitelist field holds "*" or the device's
\* attribute (AND across fields, OR within a field's list).
C2_MatchIffUsbDmi ==
    (PassDone /\ domain \in {"usb", "dmi"}) =>
        \A i \in 1..Len(profile_data) :
            InList(available_profiles, profile_data[i])
                <=> (/\ ~Blacklisted(domain, profile_data[i], device)
                     /\ Whitelisted(domain, profile_data[i], device))

\* C2 witness: a DMI pass over two profiles, neither blacklisted; one is
\* matched, the other is left out because a single whitelist field, a
\* non-empty list, names neither "*" nor the device's value while all its
\* other whitelist fields are ["*"].
C2_Witness ==
    /\ domain = "dmi"
    /\ pc = "matched"
    /\ Len(profile_data) = 2
    /\ \A i \in 1..2 : ~Blacklisted(domain, profile_data[i], device)
    /\ \E i \in 1..2 : InList(available_profiles, profile_data[i])
    /\ \E i \in 1..2 :
          /\ ~InList(available_profiles, profile_data[i])
          /\ \E f \in WhitelistFields(domain) :
                /\ profile_data[i][f] # <<>>
                /\ ~Contains(profile_data[i][f], "*")
                /\ ~Contains(profile_data[i][f], device[DeviceAttr(f)])
                /\ \A g \in WhitelistFields(domain) \ {f} : profile_data[i][g] = <<"*">>

\* C3: Bluetooth: a profile of the catalog is in the match result iff it is
\* not blacklisted and each of the five whitelist fields (class_ids, bt_names
\* and the three modalias lists) holds "*" or the device's attribute.
C3_MatchIffBt ==
    (PassDone /\ domain = "bt") =>
        \A i \in 1..Len(profile_data) :
            InList(available_profiles, profile_data[i])
                <=> (/\ ~Blacklisted(domain, profile_data[i], device)
                     /\ Whitelisted(domain, profile_data[i], device))

\* C19: in every domain a profile one of whose whitelist fields is an empty
\* list matches no device; a profile is matched only when every whitelist
\* field of its domain lists "*" or the device's value.
C19_EmptyWhitelistMatchesNothing ==
    PassDone =>
        \A i \in 1..Len(profile_data) :
            /\ (\E f \in WhitelistFields(domain) : profile_data[i][f] = <<>>)
                  => ~InList(available_profiles, profile_data[i])
            /\ InList(available_profiles, profile_data[i])
                  => Whitelisted(domain, profile_data[i], device)

\* the profiles of the catalog that match the device, in catalog order
RECURSIVE MatchList(_, _, _)
MatchList(d, data, dev) ==
    IF data = <<>> THEN <<>>
    ELSE (IF Matching(d, Head(data), dev) THEN <<Head(data)>> ELSE <<>>)
            \o MatchList(d, Tail(data), dev)

\* C20: after a pass over a device whose slot was unset, the slot is still
\* unset when no profile of the catalog matches (it is not an empty list),
\* and holds exactly the list of the matching profiles otherwise; the
\* listing of an unset slot reports that no profiles are available.
C20_EmptyLeavesSlotUnset ==
    PassDone =>
        LET list == MatchList(domain, profile_data, device)
        IN  /\ list = <<>> => slot = None
            /\ list # <<>> => slot = Some(list)
            /\ pc = "shown" => (shown = None <=> slot = None)
            /\ (pc = "shown" /\ slot.some) => shown = Some(Codenames(list))

\* C20 witness: the listing after a pass over a catalog of two profiles,
\* neither of which matches the device: slot unset, nothing listed.
C20_Witness ==
    /\ pc = "shown"
    /\ Len(profile_data) = 2
    /\ MatchList(domain, profile_data, device) = <<>>
    /\ slot = None
    /\ slot_writes = 0
    /\ shown = None

\* C4: the stored list is a subsequence of the catalog; the catalog being in
\* ascending priority, so is the stored list, and the stable sort by
\* priority made for the listing leaves it as it is.
C4_OrderPreserved ==
    (PassDone /\ slot.some) =>
        /\ IsSubsequence(slot.val, profile_data)
        /\ AscendingPriority(slot.val)
        /\ SortByPriority(slot.val) = slot.val
        /\ (pc = "shown" => shown = Some(Codenames(slot.val)))

\* C4 witness: the listing of a stored list of two profiles of different
\* priorities, taken from a catalog of ascending priority.
C4_Witness ==
    /\ pc = "shown"
    /\ slot.some
    /\ Len(slot.val) = 2
    /\ slot.val[1].priority < slot.val[2].priority
    /\ AscendingPriority(profile_data)
    /\ shown.some

\* position of the entry named by a parsed profile in the input array
EntryIndex(profile) ==
    CHOOSE i \in 1..Len(entries) : EntryName(i) = profile.codename

\* C5: while a catalog is parsed, after every append the catalog built so
\* far is in ascending priority and profiles of equal priority stand in the
\* order of their entries in the input array; so does the returned catalog.
C5_SortedAfterEveryAppend ==
    pc \in {"parsing", "returned"} =>
        /\ Len(profiles_array) = parsed
        /\ {profiles_array[i].codename : i \in 1..parsed}
              = {EntryName(i) : i \in 1..parsed}
        /\ \A i, j \in 1..Len(profiles_array) :
              i < j =>
                 \/ profiles_array[i].priority < profiles_array[j].priority
                 \/ /\ profiles_array[i].priority = profiles_array[j].priority
                    /\ EntryIndex(profiles_array[i]) < EntryIndex(profiles_array[j])

\* C5 witness: a returned catalog of three profiles in which a later entry
\* was moved in front of an earlier one and two entries of equal priority
\* kept their input order.
C5_Witness ==
    /\ pc = "returned"
    /\ Len(profiles_array) = 3
    /\ EntryIndex(profiles_array[1]) > EntryIndex(profiles_array[2])
    /\ \E i \in 1..2 :
          /\ profiles_array[i].priority = profiles_array[i + 1].priority
          /\ EntryIndex(profiles_array[i]) < EntryIndex(profiles_array[i + 1])

\* the catalog document whose "profiles" array is the entries read so far
EntriesDoc == JsonText(JObj([profiles |-> JArr(entries)]))

\* C15: the packages key is mapped by its shape: a string gives None, an
\* array gives Some(list) with one string per element in the same order;
\* any other shape, a missing key included, makes the parse of the whole
\* catalog fail: nothing is returned, the entries before the bad one
\* included.
C15_PackagesByShape ==
    /\ \A i \in 1..Len(profiles_array) :
          LET packages == Index(entries[EntryIndex(profiles_array[i])], "packages")
          IN  /\ packages.t = "str" => profiles_array[i].packages = None
              /\ packages.t = "arr" =>
                    /\ profiles_array[i].packages.some
                    /\ Len(profiles_array[i].packages.val) = Len(packages.v)
                    /\ \A j \in 1..Len(packages.v) :
                          packages.v[j].t = "str" =>
                             profiles_array[i].packages.val[j] = packages.v[j].v
    /\ pc = "panicked" <=>
          /\ entries # <<>>
          /\ Index(entries[Len(entries)], "packages").t \notin {"str", "arr"}
    /\ pc = "panicked" => ParseData(domain, EntriesDoc) = Panic
    /\ pc = "returned" => ParseData(domain, EntriesDoc) = Ok(profiles_array)

\* C15 witness: the third entry has no packages key, after an entry with a
\* packages string and one with a packages array were parsed.
C15_Witness ==
    /\ pc = "panicked"
    /\ Len(entries) = 3
    /\ Index(entries[3], "packages") = Null
    /\ \E i, j \in 1..2 :
          /\ profiles_array[i].packages = None
          /\ profiles_array[j].packages = Some(<<"x", "y">>)

\* the low 32 bits of an integer given by its words, read as two's
\* complement
LowWord(words) ==
    IF words = I64Words(1, 1) THEN 1                             \* 2^32 + 1
    ELSE IF words = I64Words(0, -2147483647) THEN -2147483647    \* 2^31 + 1
    ELSE IF words = I64Words(-2147483647, 5) THEN 5              \* 2^63 + 2^32 + 5
    ELSE words.lo

ParsedInOrder ==
    \A i, j \in 1..Len(profiles_array) :
        i < j => profiles_array[i].priority <= profiles_array[j].priority

\* C18 as stated: the parsed priority is 0 when the key is absent or no
\* integer; otherwise it is the integer itself inside the signed 32-bit
\* range and its low 32 bits outside it; the catalog is ordered by the
\* stored value.
C18_PriorityAsI32 ==
    /\ \A i \in 1..Len(profiles_array) :
          LET value == Index(entries[EntryIndex(profiles_array[i])], "priority")
          IN  profiles_array[i].priority =
                 IF value.t \in {"int", "uint"} THEN LowWord(value.v) ELSE 0
    /\ ParsedInOrder

\* C18 amended: the same for an integer that fits a signed 64-bit value; an
\* integer above that, like an absent or non-integer value, gives 0.
C18_PriorityOfI64 ==
    /\ \A i \in 1..Len(profiles_array) :
          LET value == Index(entries[EntryIndex(profiles_array[i])], "priority")
          IN  profiles_array[i].priority =
                 IF value.t = "int" THEN LowWord(value.v) ELSE 0
    /\ ParsedInOrder

\* C18 witness: priorities 1, 2^31 + 1 and 2^32 + 1 in that input order are
\* returned as the second entry (stored negative), the first, the third.
C18_Witness ==
    /\ pc = "returned"
    /\ Len(entries) = 3
    /\ Index(entries[1], "priority") = JInt(I64(1))
    /\ Index(entries[2], "priority") = JInt(I64Words(0, -2147483647))
    /\ Index(entries[3], "priority") = JInt(I64Words(1, 1))
    /\ Codenames(profiles_array) = <<EntryName(2), EntryName(1), EntryName(3)>>

(***************************************************************************)
(* Claims on the catalog fetch and on install, under Spec                  *)
(***************************************************************************)
\* the last operation fetched and its request got no response
RequestFailed == run.op # "none" /\ run.request.kind = "err"

\* the last operation fetched and its request got a response of that status
Responded(status) ==
    /\ run.op # "none"
    /\ run.request.kind = "ok"
    /\ run.request.status = status

\* what a fetch gives that takes its data from that cache file: the parse of
\* its text, or the error when there is no file
FromCache(file) ==
    IF file.exists THEN ParseData(domain, file.content) ELSE ErrNotFound

C7_SuccessParsesBody ==
    Responded(200) =>
        /\ run.fetched = ParseData(domain, run.request.body)
        /\ run.written = "ok" => cache = File(run.request.body)

C7_Witness ==
    /\ Responded(200)
    /\ run.request.body = JsonText(CatalogDoc(domain))
    /\ run.written = "failed"
    /\ run.before = File(JsonText(ScenarioFullDoc(domain)))
    /\ cache # File(run.request.body)
    /\ run.fetched.outcome = "ok"
    /\ Codenames(run.fetched.val) = <<"fw", "drv", "tool", "cfg">>

\* C8: a fetch whose request fails returns the parse of the body of the most
\* recent earlier fetch that succeeded and wrote the cache file (last_wrote;
\* the pre-existing cache file when there was none), and leaves the cache
\* file unchanged.
C8_FailedFetchReturnsLastWritten ==
    RequestFailed =>
        /\ cache = run.before
        /\ (~last_wrote.exists \/ last_wrote.readable) =>
               run.fetched = FromCache(last_wrote)

\* C9: a response with a non-success status is a failed fetch: the cache
\* file is left as it was and the fetch returns what the cache file gives
\* (the parse of its text, or the error when there is none), not the parse
\* of the response body.
C9_NonSuccessStatusIsFailure ==
    Responded(404) =>
        /\ cache = run.before
        /\ (~run.before.exists \/ run.before.readable) =>
               run.fetched = FromCache(run.before)

\* C10: an install whose status evaluation gives true runs no script (no
\* package-manager step, no install_script) and reports
\* profile_already_installed; so does the second of two installs of one
\* profile in a row when the status is true after the first.
C10_InstalledGate ==
    (run.op = "install" /\ run.status = "true") =>
        /\ run.ran = <<>>
        /\ run.report = "profile_already_installed"
        /\ run.exit = "0"

C10_Witness ==
    /\ run.op = "install"
    /\ run.arg = "drv"
    /\ run.repeat
    /\ run.status = "true"
    /\ run.ran = <<>>

(***************************************************************************)
(* Claims on the scripts of install and uninstall and on the status        *)
(***************************************************************************)
\* the profile the last install or uninstall looked up
RunProfile == FindCodename(run.fetched.val, run.arg, 1).val

StatusEvaluated == run.op \in {"install", "uninstall"} /\ run.found = "ok"

\* the script the specification describes: the shebang, set -e, the
\* package-manager step when there is a package list, the script text when
\* there is one; no script when there is neither
ScriptOf(action, script, packages) ==
    LET steps == (IF packages.some
                  THEN <<DistroPackages(action, Join(packages.val))>> ELSE <<>>)
                 \o (IF script.some THEN <<script.val>> ELSE <<>>)
    IN  IF steps = <<>> THEN <<>> ELSE << <<"#! /bin/bash", "set -e">> \o steps >>

\* C11: an install whose status evaluation gives false runs exactly one
\* script - the shebang, set -e, the package-manager install step over the
\* package list when the profile has one, then the install_script text when
\* the profile has one - and no script when the profile has neither.
C11_InstallScript ==
    (StatusEvaluated /\ run.op = "install" /\ run.status = "false") =>
        /\ run.ran = ScriptOf("install", RunProfile.install_script, RunProfile.packages)
        /\ Len(run.ran) <= 1
        /\ (~RunProfile.packages.some /\ ~RunProfile.install_script.some) => run.ran = <<>>

C11_Witness ==
    /\ run.op = "install"
    /\ run.arg = "drv"
    /\ run.status = "false"
    /\ run.ran = << <<"#! /bin/bash", "set -e", "pkg-install p1 p2", "make install">> >>

\* C12: an uninstall whose status evaluation gives false runs nothing and
\* reports profile_not_installed; one whose status is true runs one script
\* with set -e, the package-manager removal step over the package list (if
\* any) and then the remove_script (if any), and nothing when the profile
\* has neither.
C12_UninstallMirrors ==
    (StatusEvaluated /\ run.op = "uninstall") =>
        /\ run.status = "false" =>
              run.ran = <<>> /\ run.report = "profile_not_installed"
        /\ run.status = "true" =>
              /\ run.ran = ScriptOf("uninstall", RunProfile.remove_script,
                                    RunProfile.packages)
              /\ (~RunProfile.packages.some /\ ~RunProfile.remove_script.some) =>
                     run.ran = <<>>

C12_Witness ==
    /\ run.op = "uninstall"
    /\ run.arg = "drv"
    /\ run.status = "true"
    /\ run.ran = << <<"#! /bin/bash", "set -e", "pkg-uninstall p1 p2", "make uninstall">> >>

\* C13: the status is true exactly when the shell run of the check script
\* exits with 0 (a spawn failure and a non-zero exit give false); the entry
\* cfg, which has no check_script, gets the script "false": its status is
\* never true, its install passes the installed-gate and its uninstall runs
\* nothing.
C13_StatusIsExitZero ==
    (StatusEvaluated /\ run.shell # "n/a") =>
        /\ run.status = "true" <=> run.shell = "exit_0"
        /\ run.status = "false" <=> run.shell \in {"spawn_failed", "exit_nonzero"}
        /\ run.arg = "cfg" =>
              /\ RunProfile.check_script = "false"
              /\ run.status = "false"
              /\ run.op = "install" =>
                    /\ run.report # "profile_already_installed"
                    /\ run.ran = ScriptOf("install", RunProfile.install_script,
                                          RunProfile.packages)
              /\ run.op = "uninstall" =>
                    run.ran = <<>> /\ run.report = "profile_not_installed"

C13_Witness ==
    /\ run.op = "uninstall"
    /\ run.arg = "cfg"
    /\ run.shell = "exit_nonzero"
    /\ run.status = "false"
    /\ run.ran = <<>>

(***************************************************************************)
(* The end-to-end scenario                                                 *)
(***************************************************************************)
\* the last operation was a listing for a device of class "0102"
ListedClass0102 ==
    /\ run.op = "display"
    /\ run.request.kind # "none"
    /\ device[DeviceAttr(ClassField(domain))] = "0102"

C21_FailuresAreErrors ==
    run.op # "none" =>
        /\ run.fetched.outcome \in {"ok", "err"}
        /\ run.status \in {"true", "false", "n/a"}
        /\ run.exit \in {"0", "1"}

\* the lookup or fetch whose error ended the run
ErrorOrigin(r) ==
    CASE r.request = NoRequest -> "device lookup"
      [] r.fetched.outcome = "err" -> "fetch"
      [] OTHER -> "profile lookup"

\* C22: the errors returned for 'request failed and no cache', 'no device
\* with that identifier' and 'no profile with that codename' are of
\* different kinds: two operations that end in errors of different origin
\* return errors of different kind.
C22_ErrorKindsDistinct ==
    [][(/\ run.error.some
        /\ run'.error.some
        /\ ErrorOrigin(run) # ErrorOrigin(run'))
          => run.error.val.kind # run'.error.val.kind]_vars

\* no profile of the fetched catalog carries the codename
NoSuchCodename(r) ==
    /\ r.fetched.outcome = "ok"
    /\ \A i \in 1..Len(r.fetched.val) : r.fetched.val[i].codename # r.arg

\* C23: install and uninstall with a codename of no profile of the fetched
\* catalog end in the profile-not-found error with no check script
\* evaluated and nothing run; when the request fails and there is no cache
\* file they end in the fetch error before any lookup, status evaluation
\* or script.
C23_NotFoundRunsNothing ==
    run.op \in {"install", "uninstall"} =>
        /\ NoSuchCodename(run) =>
              /\ run.error = Some(NoProfileError(domain))
              /\ run.found = "err"
              /\ run.shell = "n/a"
              /\ run.status = "n/a"
              /\ run.ran = <<>>
              /\ run.exit = "1"
        /\ (run.request.kind = "err" /\ ~run.before.exists) =>
              /\ run.error = Some(CacheNotFoundError(domain))
              /\ run.found = "n/a"
              /\ run.shell = "n/a"
              /\ run.status = "n/a"
              /\ run.ran = <<>>
              /\ run.exit = "1"

\* C23 witness: uninstall of a codename that none of the four profiles of
\* the downloaded catalog carries.
C23_Witness ==
    /\ run.op = "uninstall"
    /\ run.arg = "nope"
    /\ run.request.kind = "ok"
    /\ NoSuchCodename(run)
    /\ Len(run.fetched.val) = 4
    /\ run.error = Some(NoProfileError(domain))
    /\ run.ran = <<>>

C25_SlotWrittenAtMostOnce ==
    PassDone => slot_writes <= 1

\* C26: status evaluations that share /var/cache/cfhdb/check_cmd.sh are
\* serialized: between one call's write of the script and its execution no
\* other call writes the path, so every call executes the check script of
\* its own profile.
C26_StatusSerialized ==
    /\ \A i \in DOMAIN calls :
          calls[i].pc = "done" =>
             calls[i].ran = Some(CheckCmdText(calls[i].check_script))
    /\ \A i, j \in DOMAIN calls :
          (i # j /\ calls[i].pc \in {"written", "executable"})
             => calls[j].pc \notin {"opened", "written", "executable"}

\* the passes so far that computed a non-empty match list
NonEmptyPasses == {k \in 1..Len(passes) : passes[k] # <<>>}

\* C27: after any sequence of set_available_profiles calls on one device the
\* slot is unset exactly when every pass so far computed an empty list;
\* otherwise it holds the list of the most recent pass that computed a
\* non-empty one: a later pass that matches nothing leaves the slot as it is.
C27_SlotKeepsLastNonEmpty ==
    /\ slot = None <=> NonEmptyPasses = {}
    /\ NonEmptyPasses # {} =>
          \E k \in NonEmptyPasses :
             /\ \A j \in NonEmptyPasses : j <= k
             /\ slot = Some(passes[k])

\* C27 witness: three passes: the first two matched different lists, the
\* third matched nothing over a non-empty catalog; the slot holds the list of
\* the second.
C27_Witness ==
    /\ Len(passes) = 3
    /\ passes[1] # <<>>
    /\ passes[2] # <<>>
    /\ passes[1] # passes[2]
    /\ passes[3] = <<>>
    /\ profile_data # <<>>
    /\ slot = Some(passes[2])

\* the run got a response body that did not parse
BodyFailedToParse(r) ==
    /\ r.op # "none"
    /\ r.request.kind = "ok"
    /\ r.fetched = Panic

\* C28: the response body is written to the cache file before it is parsed:
\* after a fetch whose body fails to parse (invalid JSON, or a packages
\* value of the wrong shape) the cache file holds that body in place of what
\* was cached before, and the next fetch whose request fails reads that
\* body.
C28_BodyCachedBeforeParse ==
    [][/\ BodyFailedToParse(run') => cache' = File(run'.request.body)
       /\ (BodyFailedToParse(run) /\ runs' = runs + 1 /\ run'.request.kind = "err") =>
             /\ run'.before = File(run.request.body)
             /\ run'.fetched = ParseData(domain, run.request.body)]_vars

\* the catalog document the run parsed: the response body, or the text of
\* the cache file when the request failed
RunDoc == IF run.request.kind = "ok" THEN run.request.body.doc ELSE run.before.content.doc

\* the entries of that document that parse to the profile the run acted on
RunEntries ==
    {e \in {Index(RunDoc, "profiles").v[i] : i \in 1..Len(Index(RunDoc, "profiles").v)} :
        ProfileStruct(domain, e) = RunProfile}

\* the key of the script the operation runs, and the status that lets it run
ScriptKey(op) == IF op = "install" THEN "install_script" ELSE "remove_script"
RunsOn(op) == IF op = "install" THEN "false" ELSE "true"

\* C29: an entry whose install_script (remove_script) key is missing or not
\* a string parses to a present, empty script: install of such a profile
\* with string-form packages and status false (uninstall with status true)
\* runs a script that holds only the shebang and set -e, and nothing is run
\* at that status only for the sentinel value.
C29_MissingScriptIsEmptyScript ==
    (StatusEvaluated /\ run.status = RunsOn(run.op)) =>
        /\ RunEntries # {}
        /\ \A e \in RunEntries :
              /\ Index(e, ScriptKey(run.op)).t # "str" =>
                    /\ RunProfile[ScriptKey(run.op)] = Some("")
                    /\ Index(e, "packages").t = "str" =>
                          run.ran = << <<"#! /bin/bash", "set -e", "">> >>
              /\ run.ran = <<>> =>
                    Index(e, ScriptKey(run.op)) = JStr("Option::is_none")

\* C29 witness: install of cfg, an entry with a packages string and no
\* install_script key, at status false: one script of shebang, set -e and an
\* empty text.
C29_Witness ==
    /\ StatusEvaluated
    /\ run.op = "install"
    /\ run.arg = "cfg"
    /\ run.status = "false"
    /\ \E e \in RunEntries :
          /\ Index(e, "install_script") = Null
          /\ Index(e, "packages").t = "str"
    /\ run.ran = << <<"#! /bin/bash", "set -e", "">> >>

\* the "profiles" array of the document the run parsed, and the positions
\* in it of the entries whose codename is the run's argument
RunArray == Index(RunDoc, "profiles").v
Carriers ==
    {i \in 1..Len(RunArray) : ProfileStruct(domain, RunArray[i]).codename = run.arg}

\* the carrier of lowest priority, the first in the array among equals
FirstCarrier ==
    CHOOSE i \in Carriers :
        \A j \in Carriers :
            LET pi == ProfileStruct(domain, RunArray[i]).priority
                pj == ProfileStruct(domain, RunArray[j]).priority
            IN  pi < pj \/ (pi = pj /\ i <= j)

\* C30: the lookup returns the first profile in catalog order that has the
\* codename and an error only when none has it: among entries that share a
\* codename (the empty codename of entries without one included) install
\* and uninstall act on the one of lowest priority, the first of the input
\* array when priorities tie.
C30_FirstOfDuplicates ==
    (run.op \in {"install", "uninstall"} /\ run.fetched.outcome = "ok") =>
        /\ run.found = "err" <=> Carriers = {}
        /\ run.found = "ok" =>
              LET target == ProfileStruct(domain, RunArray[FirstCarrier])
              IN  /\ RunProfile = target
                  /\ run.shell \in ShellOutcomes(target.check_script) \cup {"n/a"}
                  /\ run.status = RunsOn(run.op) =>
                        run.ran = ScriptOf(run.op, target[ScriptKey(run.op)],
                                           target.packages)

\* C30 witness: install of "dup" over the catalog with three entries of that
\* codename ran the install script of the first of the two of priority 1.
C30_Witness ==
    /\ run.found = "ok"
    /\ Cardinality(Carriers) = 3
    /\ run.op = "install"
    /\ run.arg = "dup"
    /\ run.ran = << <<"#! /bin/bash", "set -e", "install low first">> >>

====
